---- MODULE Spec2Model ----
(***************************************************************************)
(* create-playwright: the project generator of                            *)
(* packages/create-playwright/src/index.ts as a state machine.             *)
(*                                                                         *)
(* Strings the code inspects are sequences of tokens (a token is a run of  *)
(* characters no inspected substring straddles), paths are an absolute     *)
(* flag and a sequence of segments, a Map is a sequence of entries in      *)
(* insertion order, and the disk is a function from the path below the     *)
(* root directory to the file's contents.                                  *)
(***************************************************************************)
EXTENDS Integers, Sequences, FiniteSets, TLC

VARIABLES disk, TEST_OPTIONS, pc, packageManager, answers, files, commands,
          ci, running, fi, trace, error, exitCode, runs, prev

vars == <<disk, TEST_OPTIONS, pc, packageManager, answers, files, commands,
          ci, running, fi, trace, error, exitCode, runs, prev>>

\* How many times the generator is invoked on the same root directory.
MaxRuns == 3

-----------------------------------------------------------------------------
\* Strings

NL == "\n"

IsWhitespace(t) == t \in {NL, " "}

RECURSIVE trimEnd(_)
trimEnd(s) ==
  IF s = <<>> THEN <<>>
  ELSE IF IsWhitespace(s[Len(s)]) THEN trimEnd(SubSeq(s, 1, Len(s) - 1))
  ELSE s

includes(s, t) ==
  \E i \in 0..(Len(s) - Len(t)) : SubSeq(s, i + 1, i + Len(t)) = t

\* The lines of a text: the pieces between the newlines.
RECURSIVE SplitLines(_)
SplitLines(s) ==
  IF \A i \in 1..Len(s) : s[i] # NL THEN <<s>>
  ELSE LET k == CHOOSE i \in 1..Len(s) : s[i] = NL /\ \A j \in 1..(i - 1) : s[j] # NL
       IN  <<SubSeq(s, 1, k - 1)>> \o SplitLines(SubSeq(s, k + 1, Len(s)))

Occurrences(s, line) ==
  Cardinality({i \in 1..Len(SplitLines(s)) : SplitLines(s)[i] = line})

-----------------------------------------------------------------------------
\* Paths

Rel(segs) == [abs |-> FALSE, segs |-> segs]
Abs(segs) == [abs |-> TRUE, segs |-> segs]

\* path.normalize on the segments: "." goes, ".." takes the segment before it.
RECURSIVE NormSegs(_, _, _)
NormSegs(abs, done, todo) ==
  IF todo = <<>> THEN done
  ELSE LET s == Head(todo) IN
       IF s = "." THEN NormSegs(abs, done, Tail(todo))
       ELSE IF s = ".." THEN
         IF done # <<>> /\ done[Len(done)] # ".."
           THEN NormSegs(abs, SubSeq(done, 1, Len(done) - 1), Tail(todo))
         ELSE IF abs THEN NormSegs(abs, done, Tail(todo))
         ELSE NormSegs(abs, Append(done, ".."), Tail(todo))
       ELSE NormSegs(abs, Append(done, s), Tail(todo))

\* path.join(a, b): an empty argument is skipped; the result is absolute when
\* the first non-empty argument is; an empty relative result is ".".
join(a, b) ==
  LET abs  == IF a.segs = <<>> /\ ~a.abs THEN b.abs ELSE a.abs
      segs == NormSegs(abs, <<>>, a.segs \o b.segs)
  IN  [abs |-> abs, segs |-> IF segs = <<>> /\ ~abs THEN <<".">> ELSE segs]

\* path.join(this.rootDir, p): where p lies below the root directory.
InRoot(p) == NormSegs(FALSE, <<>>, p.segs)

existsSync(d, p) == InRoot(p) \in DOMAIN d

WriteFile(d, p, content) ==
  [q \in DOMAIN d \cup {InRoot(p)} |-> IF q = InRoot(p) THEN content ELSE d[q]]

GITIGNORE == Rel(<<".gitignore">>)
PACKAGE_JSON == Rel(<<"package.json">>)
WORKFLOW == Rel(<<".github", "workflows", "playwright.yml">>)

-----------------------------------------------------------------------------
\* File contents

Text(t) == [kind |-> "text", text |-> t]

\* package.json: how the text is laid out, the top-level members other than
\* "scripts" in order, and the members of "scripts" in order.
Json(fmt, other, hasScripts, scripts) ==
  [kind |-> "json", fmt |-> fmt, other |-> other, hasScripts |-> hasScripts,
   scripts |-> scripts]

Member(k, v) == [key |-> k, value |-> v]

HasKey(obj, k) == \E i \in 1..Len(obj) : obj[i].key = k

Get(obj, k) == obj[CHOOSE i \in 1..Len(obj) : obj[i].key = k].value

\* obj[k] = v: an existing member keeps its place, a new one goes last.
Put(obj, k, v) ==
  IF HasKey(obj, k)
    THEN [i \in 1..Len(obj) |-> IF obj[i].key = k THEN Member(k, v) ELSE obj[i]]
    ELSE Append(obj, Member(k, v))

RECURSIVE Delete(_, _)
Delete(obj, k) ==
  IF obj = <<>> THEN <<>>
  ELSE IF Head(obj).key = k THEN Delete(Tail(obj), k)
  ELSE <<Head(obj)>> \o Delete(Tail(obj), k)

\* JSON.parse: the value of the text, whatever its layout.
JSONparse(file) ==
  [other |-> file.other, hasScripts |-> file.hasScripts, scripts |-> file.scripts]

\* JSON.stringify(value, null, 2) + '\n': the layout NPM writes.
JSONstringify(v) == Json("indent2", v.other, v.hasScripts, v.scripts)

-----------------------------------------------------------------------------
\* The answers

Languages == {"JavaScript", "TypeScript"}

\* What the user can type for testDir: the text, and the path it denotes.
Dir(str, abs, segs) == [str |-> str, abs |-> abs, segs |-> segs]

TestDirs ==
  { Dir("e2e", FALSE, <<"e2e">>),
    Dir("./tests/e2e", FALSE, <<".", "tests", "e2e">>),
    Dir("../e2e", FALSE, <<"..", "e2e">>),
    Dir("/e2e", TRUE, <<"e2e">>) }

PromptOptions ==
  [language : Languages, testDir : TestDirs, installGitHubActions : BOOLEAN]

NoAnswers ==
  [language |-> "", testDir |-> Dir("", FALSE, <<>>), installGitHubActions |-> FALSE]

PackageManagers == {"npm", "yarn"}

-----------------------------------------------------------------------------
\* Helpers of the generator

PACKAGE_JSON_TEST_SCRIPT_CMD == "test:e2e"

languagetoFileExtension(language) ==
  IF language = "JavaScript" THEN "js" ELSE "ts"

commandToRunTests(pm) ==
  IF pm = "yarn" THEN "yarn " \o PACKAGE_JSON_TEST_SCRIPT_CMD
  ELSE "npm run " \o PACKAGE_JSON_TEST_SCRIPT_CMD

\* The first occurrence of each {{key}} becomes the key's value.
RECURSIVE executeTemplate(_, _)
executeTemplate(input, args) ==
  IF args = <<>> THEN input
  ELSE LET hole == "{{" \o Head(args).key \o "}}"
           out  == IF \E i \in 1..Len(input) : input[i] = hole
                     THEN LET k == CHOOSE i \in 1..Len(input) :
                                     input[i] = hole /\ \A j \in 1..(i - 1) : input[j] # hole
                          IN  [input EXCEPT ![k] = Head(args).value]
                     ELSE input
       IN  executeTemplate(out, Tail(args))

\* The files of the assets directory.
_readAsset(asset) ==
  IF asset \in {"playwright.config.ts", "playwright.config.js"}
    THEN <<asset, " testDir: '", "{{testDir}}", "'", NL>>
  ELSE IF asset = "github-actions.yml"
    THEN <<asset, " run: ", "{{installDepsCommand}}", NL, " run: ", "{{runTestsCommand}}", NL>>
  ELSE <<asset, NL>>

\* Variant: the existing .gitignore is not read.
_buildGitIgnore_Overwrites(d) ==
  <<"node_modules", "/", NL, "test-results", "/", NL>>

_buildGitIgnore(d) ==
  LET existing == IF existsSync(d, GITIGNORE)
                    THEN trimEnd(d[InRoot(GITIGNORE)].text) \o <<NL>>
                    ELSE <<>>
      withModules == IF ~includes(existing, <<"node_modules">>)
                       THEN existing \o <<"node_modules", "/", NL>>
                       ELSE existing
  IN  withModules \o <<"test-results", "/", NL>>

\* files.set(path, content) on a Map kept in insertion order.
MapSet(map, path, content) ==
  IF \E i \in 1..Len(map) : map[i].path = path
    THEN [i \in 1..Len(map) |->
            IF map[i].path = path THEN [path |-> path, content |-> content] ELSE map[i]]
    ELSE Append(map, [path |-> path, content |-> content])

Keys(map) == {map[i].path : i \in 1..Len(map)}

Command(name, command) == [name |-> name, command |-> command]

InitCommand(pm) ==
  Command(IF pm = "yarn" THEN "Initializing Yarn project" ELSE "Initializing NPM project",
          IF pm = "yarn" THEN "yarn init -y" ELSE "npm init -y")

InstallCommand(pm) ==
  Command("Installing Playwright Test",
          IF pm = "yarn" THEN "yarn add --dev @playwright/test"
          ELSE "npm install --save-dev @playwright/test")

DownloadCommand == Command("Downloading browsers", "npx playwright install --with-deps")

\* Variant: the workflow file is planned whatever the answer.
_identifyChanges_AlwaysWorkflow(a, pm, d) ==
  LET fileExtension == languagetoFileExtension(a.language)
      config == "playwright.config." \o fileExtension
      example == "example.spec." \o fileExtension
      f1 == MapSet(<<>>, Rel(<<config>>),
                   Text(executeTemplate(_readAsset(config),
                                        <<Member("testDir", a.testDir.str)>>)))
      githubActionsScript ==
        executeTemplate(_readAsset("github-actions.yml"),
          << Member("installDepsCommand", IF pm = "npm" THEN "npm ci" ELSE "yarn"),
             Member("runTestsCommand", commandToRunTests(pm)) >>)
      f2 == MapSet(f1, WORKFLOW, Text(githubActionsScript))
      f3 == MapSet(f2, join([abs |-> a.testDir.abs, segs |-> a.testDir.segs],
                            Rel(<<example>>)),
                   Text(_readAsset(example)))
      c1 == IF ~existsSync(d, PACKAGE_JSON) THEN <<InitCommand(pm)>> ELSE <<>>
      c2 == Append(c1, InstallCommand(pm))
      c3 == Append(c2, DownloadCommand)
      f4 == MapSet(f3, GITIGNORE, Text(_buildGitIgnore(d)))
  IN  [files |-> f4, commands |-> c3]

\* Variant: the browsers are downloaded before Playwright Test is installed.
_identifyChanges_DownloadFirst(a, pm, d) ==
  LET fileExtension == languagetoFileExtension(a.language)
      config == "playwright.config." \o fileExtension
      example == "example.spec." \o fileExtension
      f1 == MapSet(<<>>, Rel(<<config>>),
                   Text(executeTemplate(_readAsset(config),
                                        <<Member("testDir", a.testDir.str)>>)))
      githubActionsScript ==
        executeTemplate(_readAsset("github-actions.yml"),
          << Member("installDepsCommand", IF pm = "npm" THEN "npm ci" ELSE "yarn"),
             Member("runTestsCommand", commandToRunTests(pm)) >>)
      f2 == IF a.installGitHubActions
              THEN MapSet(f1, WORKFLOW, Text(githubActionsScript))
              ELSE f1
      f3 == MapSet(f2, join([abs |-> a.testDir.abs, segs |-> a.testDir.segs],
                            Rel(<<example>>)),
                   Text(_readAsset(example)))
      c1 == IF ~existsSync(d, PACKAGE_JSON) THEN <<InitCommand(pm)>> ELSE <<>>
      c2 == Append(c1, DownloadCommand)
      c3 == Append(c2, InstallCommand(pm))
      f4 == MapSet(f3, GITIGNORE, Text(_buildGitIgnore(d)))
  IN  [files |-> f4, commands |-> c3]

_identifyChanges(a, pm, d) ==
  LET fileExtension == languagetoFileExtension(a.language)
      config == "playwright.config." \o fileExtension
      example == "example.spec." \o fileExtension
      f1 == MapSet(<<>>, Rel(<<config>>),
                   Text(executeTemplate(_readAsset(config),
                                        <<Member("testDir", a.testDir.str)>>)))
      githubActionsScript ==
        executeTemplate(_readAsset("github-actions.yml"),
          << Member("installDepsCommand", IF pm = "npm" THEN "npm ci" ELSE "yarn"),
             Member("runTestsCommand", commandToRunTests(pm)) >>)
      f2 == IF a.installGitHubActions
              THEN MapSet(f1, WORKFLOW, Text(githubActionsScript))
              ELSE f1
      f3 == MapSet(f2, join([abs |-> a.testDir.abs, segs |-> a.testDir.segs],
                            Rel(<<example>>)),
                   Text(_readAsset(example)))
      c1 == IF ~existsSync(d, PACKAGE_JSON) THEN <<InitCommand(pm)>> ELSE <<>>
      c2 == Append(c1, InstallCommand(pm))
      c3 == Append(c2, DownloadCommand)
      f4 == MapSet(f3, GITIGNORE, Text(_buildGitIgnore(d)))
  IN  [files |-> f4, commands |-> c3]

\* Variant: the test script is deleted whatever it says.
PatchedPackageJSON_DropsTest(file) ==
  LET packageJSON == JSONparse(file)
      scripts0 == IF ~packageJSON.hasScripts THEN <<>> ELSE packageJSON.scripts
      scripts1 == Delete(scripts0, "test")
      scripts2 == Put(scripts1, PACKAGE_JSON_TEST_SCRIPT_CMD, <<"playwright test">>)
  IN  JSONstringify([other |-> packageJSON.other, hasScripts |-> TRUE,
                     scripts |-> scripts2])

\* Variant: a test:e2e script that exists already is kept.
PatchedPackageJSON_KeepsScript(file) ==
  LET packageJSON == JSONparse(file)
      scripts0 == IF ~packageJSON.hasScripts THEN <<>> ELSE packageJSON.scripts
      scripts1 == IF HasKey(scripts0, "test")
                     /\ includes(Get(scripts0, "test"), <<"no test specified">>)
                    THEN Delete(scripts0, "test")
                    ELSE scripts0
      scripts2 == IF HasKey(scripts1, PACKAGE_JSON_TEST_SCRIPT_CMD)
                    THEN scripts1
                    ELSE Put(scripts1, PACKAGE_JSON_TEST_SCRIPT_CMD, <<"playwright test">>)
  IN  JSONstringify([other |-> packageJSON.other, hasScripts |-> TRUE,
                     scripts |-> scripts2])

\* The package.json that _patchPackageJSON writes, from the one it reads.
PatchedPackageJSON(file) ==
  LET packageJSON == JSONparse(file)
      scripts0 == IF ~packageJSON.hasScripts THEN <<>> ELSE packageJSON.scripts
      scripts1 == IF HasKey(scripts0, "test")
                     /\ includes(Get(scripts0, "test"), <<"no test specified">>)
                    THEN Delete(scripts0, "test")
                    ELSE scripts0
      scripts2 == Put(scripts1, PACKAGE_JSON_TEST_SCRIPT_CMD, <<"playwright test">>)
  IN  JSONstringify([other |-> packageJSON.other, hasScripts |-> TRUE,
                     scripts |-> scripts2])

_patchPackageJSON(d) ==
  MapSet(<<>>, PACKAGE_JSON, PatchedPackageJSON(d[InRoot(PACKAGE_JSON)]))

-----------------------------------------------------------------------------
\* What the package manager does in the root directory

NpmDefaultTest == <<"echo \"Error: ", "no test specified", "\" && exit 1">>

CommandEffect(d, cmd) ==
  IF cmd.command = "npm init -y" THEN
    WriteFile(d, PACKAGE_JSON,
              Json("indent2", <<Member("name", "app"), Member("version", "1.0.0")>>,
                   TRUE, <<Member("test", NpmDefaultTest)>>))
  ELSE IF cmd.command = "yarn init -y" THEN
    WriteFile(d, PACKAGE_JSON,
              Json("indent2", <<Member("name", "app"), Member("version", "1.0.0")>>,
                   FALSE, <<>>))
  ELSE IF cmd \in {InstallCommand("npm"), InstallCommand("yarn")}
          /\ existsSync(d, PACKAGE_JSON) THEN
    LET old == d[InRoot(PACKAGE_JSON)] IN
    WriteFile(d, PACKAGE_JSON,
              Json("indent2", Put(old.other, "devDependencies", "@playwright/test"),
                   old.hasScripts, old.scripts))
  ELSE d

-----------------------------------------------------------------------------
\* The state of one invocation

Event(op, cmd, path) == [op |-> op, cmd |-> cmd, path |-> path]

NoPath == Rel(<<>>)

\* Variant: the files are created before the commands are executed.
RunOrder_FilesFirst ==
  <<"askQuestions", "identifyChanges", "createFiles", "executeCommands",
    "patchPackageJSON", "printOutro">>

\* The order of the steps of Generator.run.
RunOrder ==
  <<"askQuestions", "identifyChanges", "executeCommands", "createFiles",
    "patchPackageJSON", "printOutro">>

After(phase) ==
  LET i == CHOOSE k \in 1..Len(RunOrder) : RunOrder[k] = phase
  IN  IF i = Len(RunOrder) THEN "resolved" ELSE RunOrder[i + 1]

NoRun == [answers |-> NoAnswers, packageManager |-> "", files |-> <<>>]

GitIgnoreInputs ==
  { <<>>,
    <<"dist", "/">>,
    <<"dist", "/", NL, " ", NL>>,
    <<"#", "node_modules", NL>>,
    <<"node_modules", NL, "dist", "/", NL>>,
    <<"node_modules", "/", NL, "test-results", "/", NL>> }

PackageJsonInputs ==
  { Json("compact", <<Member("name", "app")>>, FALSE, <<>>),
    Json("indent2", <<Member("name", "app"), Member("version", "1.0.0")>>, TRUE,
         <<Member("test", NpmDefaultTest)>>),
    Json("tabs", <<Member("name", "app"), Member("private", "true")>>, TRUE,
         <<Member("build", <<"tsc">>), Member("test", <<"jest">>)>>),
    Json("indent2", <<Member("name", "app")>>, TRUE,
         <<Member("test:e2e", <<"cypress run">>), Member("test", NpmDefaultTest),
           Member("lint", <<"eslint .">>)>>) }

EmptyDisk == [q \in {} |-> Text(<<>>)]

InitialDisks ==
  LET withIgnore == {EmptyDisk} \cup {WriteFile(EmptyDisk, GITIGNORE, Text(t)) : t \in GitIgnoreInputs}
  IN  withIgnore \cup {WriteFile(d, PACKAGE_JSON, j) : d \in withIgnore, j \in PackageJsonInputs}

Options(kind, value) == [kind |-> kind, value |-> value]

\* TEST_OPTIONS of the environment: unset, not JSON, or the answers of an
\* automated run.
TestOptionsInputs ==
  { Options("unset", NoAnswers), Options("invalid", NoAnswers),
    Options("json", [language |-> "TypeScript", testDir |-> Dir("e2e", FALSE, <<"e2e">>),
                     installGitHubActions |-> TRUE]) }

Fresh ==
  /\ pc = "start"
  /\ packageManager = ""
  /\ answers = NoAnswers
  /\ files = <<>>
  /\ commands = <<>>
  /\ ci = 0
  /\ running = FALSE
  /\ fi = 0
  /\ trace = <<>>
  /\ error = ""
  /\ exitCode = -1

Init ==
  /\ disk \in InitialDisks
  /\ TEST_OPTIONS \in TestOptionsInputs
  /\ Fresh
  /\ runs = 1
  /\ prev = NoRun

-----------------------------------------------------------------------------
\* The steps

\* An exception leaves the step: the promise of the top-level function is
\* rejected with it.
Throw(e) == pc' = "rejected" /\ error' = e

Goto(phase) == pc' = phase /\ UNCHANGED error

\* determineRootDir() and new Generator(rootDir): the package manager is the
\* one detected for the root directory.
Construct ==
  /\ pc = "start"
  /\ \E ok \in BOOLEAN, pm \in PackageManagers :
       IF ok
         THEN packageManager' = pm /\ Goto(RunOrder[1])
         ELSE UNCHANGED packageManager /\ Throw("constructor")
  /\ UNCHANGED <<disk, TEST_OPTIONS, answers, files, commands, ci, running, fi,
                 trace, exitCode, runs, prev>>

\* _printIntro() and _askQuestions(): TEST_OPTIONS when set, else the prompts,
\* which the user may cancel.
AskQuestions ==
  /\ pc = "askQuestions"
  /\ IF TEST_OPTIONS.kind = "json"
       THEN /\ answers' = TEST_OPTIONS.value
            /\ Goto(After("askQuestions"))
            /\ trace' = Append(trace, Event("intro", "", NoPath))
     ELSE IF TEST_OPTIONS.kind = "invalid"
       THEN /\ Throw("JSON.parse")
            /\ trace' = Append(trace, Event("intro", "", NoPath))
            /\ UNCHANGED answers
     ELSE \E ok \in BOOLEAN, a \in PromptOptions :
            /\ trace' = trace \o <<Event("intro", "", NoPath), Event("prompt", "", NoPath)>>
            /\ IF ok
                 THEN answers' = a /\ Goto(After("askQuestions"))
                 ELSE UNCHANGED answers /\ Throw("prompt")
  /\ UNCHANGED <<disk, TEST_OPTIONS, packageManager, files, commands, ci, running,
                 fi, exitCode, runs, prev>>

\* _identifyChanges(answers): reading an asset may fail.
IdentifyChanges ==
  /\ pc = "identifyChanges"
  /\ \E ok \in BOOLEAN :
       IF ok
         THEN LET plan == _identifyChanges(answers, packageManager, disk) IN
              /\ files' = plan.files
              /\ commands' = plan.commands
              /\ Goto(After("identifyChanges"))
         ELSE /\ Throw("readAsset")
              /\ UNCHANGED <<files, commands>>
  /\ UNCHANGED <<disk, TEST_OPTIONS, packageManager, answers, ci, running, fi,
                 trace, exitCode, runs, prev>>

\* executeCommands(rootDir, commands): the next command of the list starts.
StartCommand ==
  /\ pc = "executeCommands"
  /\ ~running
  /\ ci < Len(commands)
  /\ running' = TRUE
  /\ trace' = Append(trace, Event("exec", commands[ci + 1].command, NoPath))
  /\ UNCHANGED <<disk, TEST_OPTIONS, pc, packageManager, answers, files, commands,
                 ci, fi, error, exitCode, runs, prev>>

\* The running command ends: with status 0, or with a failure that is thrown.
FinishCommand ==
  /\ pc = "executeCommands"
  /\ running
  /\ running' = FALSE
  /\ \E ok \in BOOLEAN :
       IF ok
         THEN /\ disk' = CommandEffect(disk, commands[ci + 1])
              /\ ci' = ci + 1
              /\ trace' = Append(trace, Event("finished", commands[ci + 1].command, NoPath))
              /\ Goto(IF ci + 1 = Len(commands) THEN After("executeCommands") ELSE pc)
         ELSE /\ Throw("command")
              /\ UNCHANGED <<disk, ci, trace>>
  /\ UNCHANGED <<TEST_OPTIONS, packageManager, answers, files, commands, fi,
                 exitCode, runs, prev>>

\* createFiles(rootDir, files): the next file of the map is written.
CreateFile ==
  /\ pc = "createFiles"
  /\ fi < Len(files)
  /\ trace' = Append(trace, Event("write", "", files[fi + 1].path))
  /\ \E ok \in BOOLEAN :
       IF ok
         THEN /\ disk' = WriteFile(disk, files[fi + 1].path, files[fi + 1].content)
              /\ fi' = fi + 1
              /\ Goto(IF fi + 1 = Len(files) THEN After("createFiles") ELSE pc)
         ELSE /\ Throw("writeFile")
              /\ UNCHANGED <<disk, fi>>
  /\ UNCHANGED <<TEST_OPTIONS, packageManager, answers, files, commands, ci,
                 running, exitCode, runs, prev>>

\* _patchPackageJSON(): package.json is read, patched and written again.
PatchPackageJSON ==
  /\ pc = "patchPackageJSON"
  /\ IF ~existsSync(disk, PACKAGE_JSON)
       THEN /\ Throw("readFile")
            /\ UNCHANGED <<disk, trace>>
       ELSE LET patch == _patchPackageJSON(disk) IN
            /\ trace' = Append(trace, Event("write", "", patch[1].path))
            /\ \E ok \in BOOLEAN :
                 IF ok
                   THEN /\ disk' = WriteFile(disk, patch[1].path, patch[1].content)
                        /\ Goto(After("patchPackageJSON"))
                   ELSE /\ Throw("writeFile")
                        /\ UNCHANGED disk
  /\ UNCHANGED <<TEST_OPTIONS, packageManager, answers, files, commands, ci,
                 running, fi, exitCode, runs, prev>>

PrintOutro ==
  /\ pc = "printOutro"
  /\ trace' = Append(trace, Event("outro", "", NoPath))
  /\ Goto(After("printOutro"))
  /\ UNCHANGED <<disk, TEST_OPTIONS, packageManager, answers, files, commands, ci,
                 running, fi, exitCode, runs, prev>>

\* The promise of the top-level function is fulfilled: nothing is left to do
\* and the process ends.
ProcessEnd ==
  /\ pc = "resolved"
  /\ exitCode' = 0
  /\ pc' = "exited"
  /\ UNCHANGED <<disk, TEST_OPTIONS, packageManager, answers, files, commands, ci,
                 running, fi, trace, error, runs, prev>>

\* Variant: the error is logged and the process ends as if nothing had failed.
CatchHandler_ExitZero ==
  /\ pc = "rejected"
  /\ trace' = Append(trace, Event("console.error", error, NoPath))
  /\ exitCode' = 0
  /\ pc' = "exited"
  /\ UNCHANGED <<disk, TEST_OPTIONS, packageManager, answers, files, commands, ci,
                 running, fi, error, runs, prev>>

\* Variant: the error is logged and the generator runs again.
CatchHandler_Retry ==
  /\ pc = "rejected"
  /\ trace' = Append(trace, Event("console.error", error, NoPath))
  /\ pc' = RunOrder[1]
  /\ ci' = 0
  /\ fi' = 0
  /\ UNCHANGED <<disk, TEST_OPTIONS, packageManager, answers, files, commands,
                 running, error, exitCode, runs, prev>>

\* .catch(error => { console.error(error); process.exit(1); })
CatchHandler ==
  /\ pc = "rejected"
  /\ trace' = Append(trace, Event("console.error", error, NoPath))
  /\ exitCode' = 1
  /\ pc' = "exited"
  /\ UNCHANGED <<disk, TEST_OPTIONS, packageManager, answers, files, commands, ci,
                 running, fi, error, runs, prev>>

\* The generator is invoked again on the same root directory.
Restart ==
  /\ pc = "exited"
  /\ runs < MaxRuns
  /\ runs' = runs + 1
  /\ prev' = [answers |-> answers, packageManager |-> packageManager, files |-> files]
  /\ pc' = "start"
  /\ packageManager' = ""
  /\ answers' = NoAnswers
  /\ files' = <<>>
  /\ commands' = <<>>
  /\ ci' = 0
  /\ running' = FALSE
  /\ fi' = 0
  /\ trace' = <<>>
  /\ error' = ""
  /\ exitCode' = -1
  /\ UNCHANGED <<disk, TEST_OPTIONS>>

Next ==
  \/ Construct
  \/ AskQuestions
  \/ IdentifyChanges
  \/ StartCommand
  \/ FinishCommand
  \/ CreateFile
  \/ PatchPackageJSON
  \/ PrintOutro
  \/ ProcessEnd
  \/ CatchHandler

\* One invocation, on any of the root directories.
Spec == Init /\ [][Next]_vars

RerunDisks ==
  { EmptyDisk,
    WriteFile(EmptyDisk, GITIGNORE, Text(<<"#", "node_modules", NL>>)),
    WriteFile(WriteFile(EmptyDisk, GITIGNORE, Text(<<"dist", "/">>)), PACKAGE_JSON,
              Json("indent2", <<Member("name", "app")>>, TRUE,
                   <<Member("test:e2e", <<"cypress run">>), Member("test", NpmDefaultTest),
                     Member("lint", <<"eslint .">>)>>)) }

\* Automated invocations: TEST_OPTIONS holds the answers of every run.
RerunOptions == {Options("json", a) : a \in PromptOptions}

InitRerun ==
  /\ disk \in RerunDisks
  /\ TEST_OPTIONS \in RerunOptions
  /\ Fresh
  /\ runs = 1
  /\ prev = NoRun

NextRerun == Next \/ Restart

\* Successive invocations on the same root directory.
SpecRerun == InitRerun /\ [][NextRerun]_vars

-----------------------------------------------------------------------------
\* Properties

Ops(ops) == {i \in 1..Len(trace) : trace[i].op \in ops}

PlanWrites == {i \in Ops({"write"}) : trace[i].path # PACKAGE_JSON}

PatchWrites == {i \in Ops({"write"}) : trace[i].path = PACKAGE_JSON}

Before(I, J) == \A i \in I, j \in J : i < j

Succeeded == pc = "exited" /\ exitCode = 0

C3_ExitCode ==
  /\ exitCode \in {-1, 0, 1}
  /\ (exitCode # -1) = (pc = "exited")
  /\ pc = "exited" =>
       /\ (exitCode = 1) = (error # "")
       /\ (exitCode = 0) = (error = "")
       /\ error # "" => /\ trace[Len(trace)] = Event("console.error", error, NoPath)
                        /\ Ops({"outro"}) = {}
       /\ error = "" => /\ trace[Len(trace)].op = "outro"
                        /\ Ops({"console.error"}) = {}

C3_Witness ==
  /\ pc = "exited"
  /\ exitCode = 1
  /\ error = "command"
  /\ Ops({"finished"}) # {}

Extension(a) == IF a.language = "TypeScript" THEN "ts" ELSE "js"

\* Where the example test belongs, for each testDir the user can type.
ExpectedExample(a) ==
  LET example == "example.spec." \o Extension(a) IN
  CASE a.testDir.str = "e2e" -> Rel(<<"e2e", example>>)
    [] a.testDir.str = "./tests/e2e" -> Rel(<<"tests", "e2e", example>>)
    [] a.testDir.str = "../e2e" -> Rel(<<"..", "e2e", example>>)
    [] a.testDir.str = "/e2e" -> Abs(<<"e2e", example>>)

ExpectedPlan(a) ==
  {Rel(<<"playwright.config." \o Extension(a)>>), ExpectedExample(a), GITIGNORE}
    \cup (IF a.installGitHubActions THEN {WORKFLOW} ELSE {})

Written == {trace[i].path : i \in Ops({"write"})}

\* C5: the plan holds exactly the config file, the example test in testDir and
\* .gitignore, each once, and the workflow file exactly when
\* installGitHubActions is true; a successful run has written these and
\* package.json, and nothing else.
C5_PlannedOutput ==
  /\ files # <<>> =>
       /\ Keys(files) = ExpectedPlan(answers)
       /\ Len(files) = Cardinality(ExpectedPlan(answers))
       /\ (WORKFLOW \in Keys(files)) = answers.installGitHubActions
  /\ Succeeded =>
       /\ Written = ExpectedPlan(answers) \cup {PACKAGE_JSON}
       /\ \A i \in 1..Len(files) :
            /\ existsSync(disk, files[i].path)
            /\ disk[InRoot(files[i].path)] = files[i].content

C5_Witness ==
  /\ Succeeded
  /\ answers.installGitHubActions
  /\ answers.language = "JavaScript"
  /\ answers.testDir.str = "./tests/e2e"

IsExec(e) == e.op \in {"exec", "finished"}

\* C6: the plan lists the init command exactly when package.json did not exist
\* when the plan was computed, and lists it first; the install command comes
\* before the download of the browsers; the commands start in the listed order,
\* each after the one before it has finished.
C6_CommandsInOrder ==
  /\ commands # <<>> =>
       LET execs == SelectSeq(trace, IsExec)
           n == Len(commands)
       IN  /\ commands[n] = DownloadCommand
           /\ commands[n - 1] = InstallCommand(packageManager)
           /\ n \in {2, 3}
           /\ n = 3 => commands[1] = InitCommand(packageManager)
           /\ Len(execs) = 2 * ci + (IF running \/ error = "command" THEN 1 ELSE 0)
           /\ \A i \in 1..Len(execs) :
                execs[i] = Event(IF i % 2 = 1 THEN "exec" ELSE "finished",
                                 commands[(i + 1) \div 2].command, NoPath)
  /\ pc = "executeCommands" /\ ci = 0 /\ ~running =>
       (Len(commands) = 3) = ~existsSync(disk, PACKAGE_JSON)

C6_Witness ==
  /\ Succeeded
  /\ Len(commands) = 3
  /\ packageManager = "yarn"

\* C7, as stated: every key of the file plan is a path relative to the root
\* directory, whatever the answers.
C7_PathsRelative == \A i \in 1..Len(files) : ~files[i].path.abs

IsStep(e) == e.op \in {"exec", "finished", "write", "outro"}

AttemptedOnce ==
  \A i, j \in Ops({"exec", "write"}) : i # j => trace[i] # trace[j]

FailureStops ==
  /\ error # "" => /\ disk' = disk
                   /\ SelectSeq(trace', IsStep) = SelectSeq(trace, IsStep)
                   /\ exitCode' = 1
  /\ error = "" /\ error' # "" => disk' = disk /\ exitCode' = -1

\* C8: no command and no file is attempted twice in a run; once a step has
\* thrown, no further command, write or outro happens, the disk stays as the
\* completed steps left it, and the process exits with code 1.
C8_NoRetryNoRecovery == [](AttemptedOnce) /\ [][FailureStops]_vars

C8_Witness ==
  /\ pc = "exited"
  /\ exitCode = 1
  /\ error = "writeFile"
  /\ fi = 2
  /\ existsSync(disk, files[2].path)
  /\ ~existsSync(disk, files[3].path)

KeysOf(obj) == {obj[i].key : i \in 1..Len(obj)}

NoTestSpecified(v) == \E i \in 1..Len(v) : v[i] = "no test specified"

PatchEffect ==
  LET old == disk[InRoot(PACKAGE_JSON)]
      new == disk'[InRoot(PACKAGE_JSON)]
      oldScripts == IF old.hasScripts THEN old.scripts ELSE <<>>
  IN  /\ DOMAIN disk' = DOMAIN disk
      /\ \A q \in DOMAIN disk \ {InRoot(PACKAGE_JSON)} : disk'[q] = disk[q]
      /\ new.kind = "json"
      /\ new.other = old.other
      /\ new.hasScripts
      /\ Cardinality({i \in 1..Len(new.scripts) : new.scripts[i].key = "test:e2e"}) = 1
      /\ Get(new.scripts, "test:e2e") = <<"playwright test">>
      /\ HasKey(new.scripts, "test") =
           (HasKey(oldScripts, "test") /\ ~NoTestSpecified(Get(oldScripts, "test")))
      /\ \A k \in (KeysOf(oldScripts) \cup KeysOf(new.scripts)) \ {"test:e2e"} :
           HasKey(new.scripts, k) =>
             HasKey(oldScripts, k) /\ Get(new.scripts, k) = Get(oldScripts, k)
      /\ \A k \in KeysOf(oldScripts) \ {"test:e2e", "test"} : HasKey(new.scripts, k)
      /\ PatchedPackageJSON(new) = new

\* C9: the patch step changes no file but package.json and in it only
\* "scripts": test:e2e becomes 'playwright test', test goes exactly when it
\* contained 'no test specified', every other script and every other top-level
\* member keeps its value; patching the result again gives the same file.
C9_PatchFrame ==
  [][pc = "patchPackageJSON" /\ error' = "" => PatchEffect]_vars

C9_Witness ==
  /\ pc = "printOutro"
  /\ LET json == disk[InRoot(PACKAGE_JSON)] IN
       /\ ~HasKey(json.scripts, "test")
       /\ HasKey(json.scripts, "lint")
       /\ json.scripts[1] = Member("test:e2e", <<"playwright test">>)

\* The planned .gitignore while the one on disk is still the one the plan read.
Planned(path) == files[CHOOSE i \in 1..Len(files) : files[i].path = path].content

Unwritten == files # <<>> /\ fi = 0

ExistingIgnore ==
  IF existsSync(disk, GITIGNORE) THEN disk[InRoot(GITIGNORE)].text ELSE <<>>

\* The existing text up to its last token that is not whitespace.
Stripped(t) ==
  LET n == CHOOSE k \in 0..Len(t) :
             /\ k = 0 \/ ~IsWhitespace(t[k])
             /\ \A i \in (k + 1)..Len(t) : IsWhitespace(t[i])
  IN  SubSeq(t, 1, n)

HasLine(t, line) == \E i \in 1..Len(SplitLines(t)) : SplitLines(t)[i] = line

GitIgnoreShape ==
  LET old == ExistingIgnore
      new == Planned(GITIGNORE).text
      kept == IF existsSync(disk, GITIGNORE) THEN Stripped(old) \o <<NL>> ELSE <<>>
      modules == IF \E i \in 1..Len(old) : old[i] = "node_modules"
                   THEN <<>> ELSE <<"node_modules", "/", NL>>
  IN  /\ new = kept \o modules \o <<"test-results", "/", NL>>
      /\ \A i \in 1..Len(SplitLines(Stripped(old))) :
           Occurrences(new, SplitLines(Stripped(old))[i])
             >= Occurrences(Stripped(old), SplitLines(Stripped(old))[i])

\* C10, as stated: the planned .gitignore is the existing one with its trailing
\* whitespace replaced by a newline, then 'node_modules/' when the existing one
\* does not contain 'node_modules', then 'test-results/'; so it has an entry
\* that covers node_modules and the entry 'test-results/'.
C10_EntryCoversNodeModules ==
  Unwritten =>
    /\ GitIgnoreShape
    /\ HasLine(Planned(GITIGNORE).text, <<"test-results", "/">>)
    /\ \/ HasLine(Planned(GITIGNORE).text, <<"node_modules", "/">>)
       \/ HasLine(Planned(GITIGNORE).text, <<"node_modules">>)

\* C10, amended: the planned .gitignore is the existing one with its trailing
\* whitespace replaced by a newline, then 'node_modules/' when the existing one
\* does not contain 'node_modules', then 'test-results/'; no existing line is
\* lost; so it contains the text 'node_modules' (as an entry when the generator
\* added it) and the entry 'test-results/'.
C10_GitIgnoreKept ==
  Unwritten =>
    /\ GitIgnoreShape
    /\ HasLine(Planned(GITIGNORE).text, <<"test-results", "/">>)
    /\ includes(Planned(GITIGNORE).text, <<"node_modules">>)
    /\ ~includes(ExistingIgnore, <<"node_modules">>) =>
         HasLine(Planned(GITIGNORE).text, <<"node_modules", "/">>)

C10_Witness ==
  /\ Unwritten
  /\ ExistingIgnore = <<"dist", "/", NL, " ", NL>>
  /\ Planned(GITIGNORE).text =
       <<"dist", "/", NL, "node_modules", "/", NL, "test-results", "/", NL>>

\* C2, as stated: after any number of successful runs on the same root
\* directory, .gitignore has 'node_modules/' at most once and 'test-results/'
\* at most once.
C2_NoDuplicateEntries ==
  Succeeded =>
    /\ Occurrences(ExistingIgnore, <<"node_modules", "/">>) <= 1
    /\ Occurrences(ExistingIgnore, <<"test-results", "/">>) <= 1

SameAnswersAgain ==
  runs > 1 /\ files # <<>> /\ prev.files # <<>> /\ answers = prev.answers

\* C4, as stated: two runs with the same answers plan the same files with the
\* same contents, whatever package manager was detected and whatever the root
\* directory held.
C4_SamePlan == SameAnswersAgain => files = prev.files

\* C4, amended: two runs with the same answers plan the same paths in the same
\* order, with the same contents of the config file and of the example test,
\* and the same contents of the workflow file when the same package manager was
\* detected; the .gitignore follows the existing one; the patched test:e2e
\* script is 'playwright test' in every run.
C4_SameFileSet ==
  /\ SameAnswersAgain =>
       /\ Len(files) = Len(prev.files)
       /\ \A i \in 1..Len(files) :
            /\ files[i].path = prev.files[i].path
            /\ files[i].path \notin {WORKFLOW, GITIGNORE} =>
                 files[i].content = prev.files[i].content
            /\ files[i].path = WORKFLOW /\ packageManager = prev.packageManager =>
                 files[i].content = prev.files[i].content
  /\ pc \in {"printOutro", "resolved"} \/ Succeeded =>
       Get(disk[InRoot(PACKAGE_JSON)].scripts, "test:e2e") = <<"playwright test">>

C4_Witness ==
  /\ SameAnswersAgain
  /\ Succeeded
  /\ answers.installGitHubActions
  /\ packageManager # prev.packageManager
  /\ files # prev.files

====
